---- MODULE Spec2Model ----
(***************************************************************************)
(* Session lifecycle manager of src/index.js: the in-memory map `clients`, *)
(* the Client objects built by initializeClient and their event handlers,  *)
(* the eviction timers, startup discovery, and the start / status / delete *)
(* HTTP handlers.  JavaScript runs one handler at a time and suspends only *)
(* at `await`, so every action below is one run-to-completion segment of a *)
(* handler: from its entry (or its resumption) to its next await or return.*)
(***************************************************************************)
EXTENDS Naturals, Sequences, FiniteSets, TLC

VARIABLES
    clients,            \* index.js:11   clientId -> Client object (0 = no property)
    sess,               \* every Client object ever constructed (index.js:48-63)
    disk,               \* SESSIONS_DIR/<clientId> on disk (index.js:14)
    listening,          \* app.listen's callback has run (index.js:471)
    existingSessions,   \* index.js:159  result of discoverExistingSessions()
    discIdx,            \* index.js:161  position of the for-of loop
    calls,              \* clientId -> initializeClient calls of the loop
                        \* (index.js:163)
    made,               \* clientId -> Clients those calls constructed
                        \* (index.js:48)
    inflight,           \* collaborator calls forwarded and not yet settled
                        \* (index.js:260, 279, 349, 391, 407)
    clientInfo,         \* the identifiers with a record in client_info.json
                        \* (index.js:129, 142-148)
    sig                 \* the SIGINT handler (index.js:455-468): "none",
                        \* "shutting" with the Clients still to destroy, or
                        \* "exited"

vars == <<clients, sess, disk, listening, existingSessions, discIdx, calls,
          made, inflight, clientInfo, sig>>

\* what discovery, forwarding, the metadata file and shutdown own
disc == <<listening, existingSessions, discIdx, calls, made>>
other == <<inflight, clientInfo, sig>>

----------------------------------------------------------------------------
(* Bounds of the model *)

\* Client objects alive at once
MaxSessions == 2
\* pending eviction timers per Client object
MaxTimers == 1
\* DELETE requests suspended in logout() per Client object
MaxDel == 1
\* forwarded collaborator calls pending at once
MaxInflight == 1

Ids == {"a", "b"}
\* fs.readdirSync returns the names in sorted order
IdOrder == <<"a", "b">>
Slots == 1..MaxSessions
NoClient == 0

\* "none": no such path; "empty": a directory without a file whose name
\* contains 'session'; "session": a directory holding such a file
DiskKinds == {"none", "empty", "session"}

Events == {"qr", "ready", "authenticated", "auth_failure", "disconnected",
           "loading_screen"}

\* the payload of a 'qr' event; "null" is JavaScript's null
QrPayloads == {"qr1"}

----------------------------------------------------------------------------
(* Client objects *)

Unused == [clientId |-> "a", status |-> "initializing", qr |-> "null",
           phase |-> "unused", by |-> "none", timers |-> 0, del |-> 0]

\* index.js:48-63: new Client(...), status 'initializing', qr null; phase
\* "handshake" is `await client.initialize()` pending (index.js:115)
NewClient(clientId, by) ==
    [clientId |-> clientId, status |-> "initializing", qr |-> "null",
     phase |-> "handshake", by |-> by, timers |-> 0, del |-> 0]

FreeSlots(ss) == {s \in Slots : ss[s].phase = "unused"}

NextSlot(ss) == CHOOSE s \in FreeSlots(ss) : \A t \in FreeSlots(ss) : s <= t

\* AlreadyExists with 'initializing' and 'authenticated' left out of the list
AlreadyExistsReadyOnly(c, ss, clientId) ==
    /\ c[clientId] # NoClient
    /\ ss[c[clientId]].status = "ready"

\* index.js:41: the guard of initializeClient's early return
AlreadyExists(c, ss, clientId) ==
    /\ c[clientId] # NoClient
    /\ ss[c[clientId]].status \in {"initializing", "authenticated", "ready"}

\* A Client that can do nothing more (its browser is gone, no timer and no
\* DELETE handler holds it) is garbage: its slot is free again
Dead(c) == c.phase \in {"rejected", "destroyed"} /\ c.timers = 0 /\ c.del = 0

\* the Clients in the entries the SIGINT handler still iterates over
\* (index.js:458) stay referenced
CollectHeld(ss, q) ==
    [s \in Slots |->
        IF Dead(ss[s]) /\ \A k \in 1..Len(q) : q[k] # s THEN Unused ELSE ss[s]]

Collect(ss) == CollectHeld(ss, sig.queue)

\* An HTTP response: res.status(code).json({status, qr, ...}); msg tells
\* the response's message apart; "" is a field the response does not carry
Response(code, msg, status, qr) ==
    [code |-> code, msg |-> msg, status |-> status, qr |-> qr]

----------------------------------------------------------------------------
(* Discovery *)

\* index.js:17-36: the folders that are directories holding a session file
RECURSIVE Qualifying(_, _)
Qualifying(d, order) ==
    IF order = <<>> THEN <<>>
    ELSE LET rest == Qualifying(d, Tail(order))
         IN  IF d[Head(order)] = "session" THEN <<Head(order)>> \o rest
             ELSE rest

discoverExistingSessions(d) == Qualifying(d, IdOrder)

\* index.js:161-168: the loop from position k on, run until initializeClient
\* suspends in a handshake (index.js:115) or the list is exhausted.  An
\* identifier whose Client AlreadyExists returns at once (index.js:41-44).
\* n and m count the calls and the Clients constructed; `full`: the loop
\* needs a Client object and none is free.
RECURSIVE Rehydrate(_, _, _, _, _, _)
Rehydrate(k, list, c, ss, n, m) ==
    IF k > Len(list)
    THEN [idx |-> k, sess |-> ss, calls |-> n, made |-> m, full |-> FALSE]
    ELSE IF AlreadyExists(c, ss, list[k])
    THEN Rehydrate(k + 1, list, c, ss, [n EXCEPT ![list[k]] = @ + 1], m)
    ELSE IF FreeSlots(ss) = {}
    THEN [idx |-> k, sess |-> ss, calls |-> n, made |-> m, full |-> TRUE]
    ELSE [idx |-> k,
          sess |-> [ss EXCEPT ![NextSlot(ss)] = NewClient(list[k], "disc")],
          calls |-> [n EXCEPT ![list[k]] = @ + 1],
          made |-> [m EXCEPT ![list[k]] = @ + 1],
          full |-> FALSE]

DiscoveryDone == listening /\ discIdx > Len(existingSessions)

\* the server takes requests: the listen callback has run (index.js:471) and
\* the process has not exited (index.js:467)
Serving == listening /\ sig.state # "exited"

----------------------------------------------------------------------------
\* The state when app.listen is called (index.js:471), for a given content
\* of SESSIONS_DIR
InitWith(disks) ==
    /\ clients = [i \in Ids |-> NoClient]
    /\ sess = [s \in Slots |-> Unused]
    /\ disk \in disks
    /\ listening = FALSE
    /\ existingSessions = <<>>
    /\ discIdx = 1
    /\ calls = [i \in Ids |-> 0]
    /\ made = [i \in Ids |-> 0]
    /\ inflight = 0
    /\ clientInfo = {}
    /\ sig = [state |-> "none", queue |-> <<>>]

\* Listen with the loop of initializeExistingSessions put off to a later turn
ListenDeferred ==
    /\ ~listening /\ sig.state # "exited"
    /\ existingSessions' = discoverExistingSessions(disk)
    /\ listening' = TRUE
    /\ UNCHANGED <<clients, sess, disk, discIdx, calls, made, other>>

\* index.js:471-474 with 156-171: the listen callback scans the disk and
\* runs the loop up to its first await
Listen ==
    /\ ~listening /\ sig.state # "exited"
    /\ LET list == discoverExistingSessions(disk)
           r == Rehydrate(1, list, clients, sess, calls, made)
       IN  /\ ~r.full
           /\ existingSessions' = list
           /\ discIdx' = r.idx
           /\ sess' = r.sess
           /\ calls' = r.calls
           /\ made' = r.made
    /\ listening' = TRUE
    /\ UNCHANGED <<clients, disk, other>>

----------------------------------------------------------------------------
(* initializeClient: the handshake and its two outcomes *)

\* index.js:115-118: initialize() resolved; only now is the Client stored
Register(c, s) == [c EXCEPT ![sess[s].clientId] = s]

\* the awaiting discovery loop resumes in the same turn (index.js:163-168)
\* and runs on to its next await; an HTTP caller is answered instead
AfterHandshake(s, c, ss) ==
    IF sess[s].by = "disc"
    THEN LET r == Rehydrate(discIdx + 1, existingSessions, c, Collect(ss),
                            calls, made)
         IN  /\ ~r.full
             /\ discIdx' = r.idx
             /\ sess' = r.sess
             /\ calls' = r.calls
             /\ made' = r.made
    ELSE /\ discIdx' = discIdx
         /\ UNCHANGED <<calls, made>>
         /\ sess' = Collect(ss)

\* index.js:207-211: the answer to the POST that awaited Client s
StartedResponse(s) == Response(200, "Initializing...", sess[s].status, "")

HandshakeResolve(s) ==
    /\ sess[s].phase = "handshake"
    /\ clients' = Register(clients, s)
    /\ AfterHandshake(s, clients',
          [sess EXCEPT ![s].phase = "resolved", ![s].by = "none"])
    /\ UNCHANGED <<disk, listening, existingSessions, other>>

\* HandshakeReject without the try/catch of index.js:162-167: the rethrown
\* error ends the discovery loop
HandshakeRejectAborts(s) ==
    /\ sess[s].phase = "handshake"
    /\ sess' = Collect([sess EXCEPT ![s].phase = "rejected",
                                    ![s].status = "error", ![s].by = "none"])
    /\ discIdx' = IF sess[s].by = "disc" THEN Len(existingSessions) + 1
                  ELSE discIdx
    /\ UNCHANGED <<clients, disk, listening, existingSessions, calls, made, other>>

\* index.js:119-124: initialize() threw; status 'error', nothing is stored,
\* the error is rethrown (index.js:212-215 answers 500, 165-167 logs it)
HandshakeReject(s) ==
    /\ sess[s].phase = "handshake"
    /\ AfterHandshake(s, clients,
          [sess EXCEPT ![s].phase = "rejected", ![s].status = "error",
                       ![s].by = "none"])
    /\ UNCHANGED <<clients, disk, listening, existingSessions, other>>

----------
(* Lifecycle events of a Client (index.js:65-112) *)

\* a Client whose browser is running can emit events
Emitting(s) == sess[s].phase \in {"handshake", "resolved"}

\* the status each handler assigns (index.js:67, 74, 84, 90, 96, 110)
StatusOf(e) ==
    CASE e = "qr" -> "qr_ready"
      [] e = "ready" -> "ready"
      [] e = "authenticated" -> "authenticated"
      [] e = "auth_failure" -> "auth_failure"
      [] e = "disconnected" -> "disconnected"
      [] e = "loading_screen" -> "loading"

\* the edges of the state machine that events take
EventEdges ==
    {<<"initializing", "qr_ready">>, <<"qr_ready", "authenticated">>,
     <<"authenticated", "ready">>,
     <<"qr_ready", "auth_failure">>, <<"authenticated", "auth_failure">>,
     <<"initializing", "disconnected">>, <<"qr_ready", "disconnected">>,
     <<"authenticated", "disconnected">>, <<"ready", "disconnected">>}

\* OnEvent dispatching on the current status: an event off the edges of the
\* state machine is dropped
OnEventGuarded(c, e, payload) ==
    IF <<c.status, StatusOf(e)>> \in EventEdges
    THEN [c EXCEPT !.status = StatusOf(e),
                   !.qr = IF e = "qr" THEN payload
                          ELSE IF e = "ready" THEN "null" ELSE @,
                   !.timers = IF e = "disconnected" THEN @ + 1 ELSE @]
    ELSE c

\* index.js:65-112: each handler assigns its status, whatever the status is
OnEvent(c, e, payload) ==
    CASE e = "qr" ->                                      \* index.js:65-70
            [c EXCEPT !.status = "qr_ready", !.qr = payload]
      [] e = "ready" ->                                   \* index.js:72-80
            [c EXCEPT !.status = "ready", !.qr = "null"]
      [] e = "authenticated" ->                           \* index.js:82-86
            [c EXCEPT !.status = "authenticated"]
      [] e = "auth_failure" ->                            \* index.js:88-92
            [c EXCEPT !.status = "auth_failure"]
      [] e = "disconnected" ->                            \* index.js:94-106
            [c EXCEPT !.status = "disconnected", !.timers = @ + 1]
      [] e = "loading_screen" ->                          \* index.js:108-112
            [c EXCEPT !.status = "loading"]

\* saveClientInfo writing its own record alone, whatever it read
saveClientInfoAlone(info, clientId, readOk, writeOk) ==
    IF writeOk THEN {clientId} ELSE info

\* index.js:128-153: the file is read (a failed read or parse leaves {}),
\* the record of clientId is set, the file is written (a failed write leaves
\* the file as it was); both failures are caught and logged
saveClientInfo(info, clientId, readOk, writeOk) ==
    IF writeOk
    THEN (IF readOk THEN info ELSE {}) \cup {clientId}
    ELSE info

\* Event with a failed access to the metadata file turned into status error
EventFailureIsError(s, e, readOk, writeOk) ==
    /\ Emitting(s)
    /\ e = "disconnected" => sess[s].timers < MaxTimers
    /\ \E payload \in QrPayloads :
          sess' = [sess EXCEPT ![s] =
                      IF e = "ready" /\ ~(readOk /\ writeOk)
                      THEN [sess[s] EXCEPT !.status = "error"]
                      ELSE OnEvent(sess[s], e, payload)]
    /\ IF e = "ready"
       THEN clientInfo' = saveClientInfo(clientInfo, sess[s].clientId,
                                         readOk, writeOk)
       ELSE clientInfo' = clientInfo
    /\ UNCHANGED <<clients, disk, disc, inflight, sig>>

\* one event handler; readOk and writeOk are the outcomes of the file
\* accesses of saveClientInfo, which only the 'ready' handler calls
\* (index.js:79)
Event(s, e, readOk, writeOk) ==
    /\ Emitting(s)
    /\ e = "disconnected" => sess[s].timers < MaxTimers
    /\ \E payload \in QrPayloads :
          sess' = [sess EXCEPT ![s] = OnEvent(sess[s], e, payload)]
    /\ IF e = "ready"
       THEN clientInfo' = saveClientInfo(clientInfo, sess[s].clientId,
                                         readOk, writeOk)
       ELSE clientInfo' = clientInfo
    /\ UNCHANGED <<clients, disk, disc, inflight, sig>>

\* index.js:100-105: the setTimeout callback of a 'disconnected' handler
Evict(c, s) ==
    IF sess[s].status = "disconnected"
    THEN [c EXCEPT ![sess[s].clientId] = NoClient]
    ELSE c

TimerFire(s) ==
    /\ sess[s].timers > 0
    /\ sess' = Collect([sess EXCEPT ![s].timers = @ - 1])
    /\ clients' = Evict(clients, s)
    /\ UNCHANGED <<disk, disc, other>>

----------------------------------------------------------------------------
(* HTTP handlers *)

\* index.js:193-195: 400 "clientId is required"
StartMissing ==
    /\ Serving
    /\ UNCHANGED vars

\* index.js:197-198, 206: POST /session/start calls initializeClient only
\* when `clients` holds nothing for the identifier
StartConstructs(clientId) == clients[clientId] = NoClient

\* index.js:197-204
StartResponse(clientId) ==
    Response(200, "Client already exists", sess[clients[clientId]].status, "")

\* index.js:190-206: answered at once with StartResponse when
\* clients[clientId] is set; otherwise initializeClient builds a Client and
\* suspends in its handshake
StartReq(clientId) ==
    /\ Serving
    /\ IF ~StartConstructs(clientId)
       THEN sess' = sess
       ELSE /\ FreeSlots(sess) # {}
            /\ sess' = [sess EXCEPT ![NextSlot(sess)] = NewClient(clientId, "http")]
    /\ UNCHANGED <<clients, disk, disc, other>>

\* StatusResponse without the look at the disk
StatusResponseRegistryOnly(clientId) ==
    IF clients[clientId] # NoClient
    THEN Response(200, "", sess[clients[clientId]].status,
                  sess[clients[clientId]].qr)
    ELSE Response(404, "Session not found", "", "")

\* index.js:219-238
StatusResponse(clientId) ==
    IF clients[clientId] # NoClient
    THEN Response(200, "", sess[clients[clientId]].status,
                  sess[clients[clientId]].qr)
    ELSE IF disk[clientId] # "none"
    THEN Response(200, "Session exists on disk", "disconnected", "")
    ELSE Response(404, "Session not found", "", "")

StatusReq(clientId) ==
    /\ Serving
    /\ UNCHANGED vars

\* DeleteNotLive without the fs.rmSync of index.js:444
DeleteNotLiveKeepsFiles(d, clientId) ==
    IF d[clientId] # "none"
    THEN [disk |-> d,
          res |-> Response(200, "Session files removed from disk", "", "")]
    ELSE [disk |-> d,
          res |-> Response(404, "Session not found", "", "")]

\* index.js:439-451: DELETE with nothing in memory, on disk d
DeleteNotLive(d, clientId) ==
    IF d[clientId] # "none"
    THEN [disk |-> [d EXCEPT ![clientId] = "none"],
          res |-> Response(200, "Session files removed from disk", "", "")]
    ELSE [disk |-> d,
          res |-> Response(404, "Session not found", "", "")]

\* index.js:415-420 and 439-451: a Client in memory suspends the handler in
\* `await client.logout()`; otherwise the handler runs to its end
DeleteReq(clientId) ==
    /\ Serving
    /\ IF clients[clientId] # NoClient
       THEN /\ sess[clients[clientId]].del < MaxDel
            /\ sess' = [sess EXCEPT ![clients[clientId]].del = @ + 1]
            /\ disk' = disk
       ELSE /\ sess' = sess
            /\ disk' = DeleteNotLive(disk, clientId).disk
    /\ UNCHANGED <<clients, disc, other>>

\* index.js:420-438: for the Client the handler read at index.js:416 under
\* clientId, logout() and destroy() returned (ok) or one of them threw
DeleteLive(c, d, clientId, ok) ==
    IF ok
    THEN [clients |-> [c EXCEPT ![clientId] = NoClient],
          disk |-> [d EXCEPT ![clientId] = "none"],
          res |-> Response(200, "Logged out and session destroyed completely",
                           "", "")]
    ELSE [clients |-> c, disk |-> d, res |-> Response(500, "error", "", "")]

DeleteFinish(s, ok) ==
    /\ sess[s].del > 0
    /\ LET d == DeleteLive(clients, disk, sess[s].clientId, ok)
       IN  /\ clients' = d.clients
           /\ disk' = d.disk
    /\ sess' = Collect([sess EXCEPT
                 ![s].del = @ - 1,
                 ![s].phase = IF ok THEN "destroyed" ELSE @])
    /\ UNCHANGED <<disc, other>>

\* DELETE /session/:clientId run from entry to response with nothing in
\* between, on registry c and disk d
Destroy(c, d, clientId, ok) ==
    IF c[clientId] # NoClient
    THEN DeleteLive(c, d, clientId, ok)
    ELSE [clients |-> c] @@ DeleteNotLive(d, clientId)

----------------------------------------------------------------------------
(* Forwarded operations *)

\* NotReady without the test of the status
NotReadyUnregistered(clientId) == clients[clientId] = NoClient

\* index.js:257, 276, 346, 388, 404: the guard shared by GET /contacts,
\* GET /chats, GET /chats/.../messages, POST /message/send and
\* POST /chats/.../send
NotReady(clientId) ==
    clients[clientId] = NoClient \/ sess[clients[clientId]].status # "ready"

\* the answer when the guard rejects
ForwardResponse(clientId) ==
    IF NotReady(clientId) THEN Response(400, "Client not ready", "", "")
    ELSE Response(0, "forwarded", "", "")

\* one of the five handlers: rejected at once, or suspended in the
\* collaborator call (index.js:260, 279, 349, 391, 407)
ForwardReq(clientId) ==
    /\ Serving
    /\ IF NotReady(clientId)
       THEN inflight' = inflight
       ELSE inflight < MaxInflight /\ inflight' = inflight + 1
    /\ UNCHANGED <<clients, sess, disk, disc, clientInfo, sig>>

\* the collaborator call returned (200) or threw (500, index.js:268-270)
ForwardSettle ==
    /\ inflight > 0
    /\ inflight' = inflight - 1
    /\ UNCHANGED <<clients, sess, disk, disc, clientInfo, sig>>

----------------------------------------------------------------------------
(* Interrupt (index.js:455-468) *)

\* the orders in which Object.entries can list the stored Clients
Entries(c) ==
    LET held == {c[i] : i \in {j \in Ids : c[j] # NoClient}}
    IN  {q \in UNION {[1..n -> held] : n \in 0..Cardinality(held)} :
            /\ Len(q) = Cardinality(held)
            /\ \A k, l \in 1..Len(q) : k # l => q[k] # q[l]}

\* process.exit(0): the memory of the process is gone, the disk stays
Exit ==
    /\ clients' = [i \in Ids |-> NoClient]
    /\ sess' = [s \in Slots |-> Unused]
    /\ inflight' = 0
    /\ sig' = [state |-> "exited", queue |-> <<>>]

\* index.js:455-458: the handler takes the entries of `clients` and suspends
\* in the first client.destroy(), or exits when there is none
Sigint ==
    /\ sig.state = "none"
    /\ \E q \in Entries(clients) :
          IF q = <<>> THEN Exit
          ELSE /\ sig' = [state |-> "shutting", queue |-> q]
               /\ UNCHANGED <<clients, sess, inflight>>
    /\ UNCHANGED <<disk, disc, clientInfo>>

\* Teardown without the try/catch: a destroy() that throws ends the loop
TeardownStopsOnThrow(ok) ==
    /\ sig.state = "shutting"
    /\ IF Len(sig.queue) = 1 \/ ~ok THEN Exit
       ELSE /\ sig' = [sig EXCEPT !.queue = Tail(@)]
            /\ sess' = CollectHeld(
                         [sess EXCEPT ![Head(sig.queue)].phase =
                             IF @ = "resolved" THEN "closed" ELSE @],
                         Tail(sig.queue))
            /\ UNCHANGED <<clients, inflight>>
    /\ UNCHANGED <<disk, disc, clientInfo>>

\* index.js:459-467: client.destroy() of the first Client left returned (ok)
\* or threw, which is caught; the loop goes on to the next or exits. A
\* Client whose browser was closed this way ("closed") emits nothing more
\* and stays in `clients`.
Teardown(ok) ==
    /\ sig.state = "shutting"
    /\ IF Len(sig.queue) = 1 THEN Exit
       ELSE /\ sig' = [sig EXCEPT !.queue = Tail(@)]
            /\ sess' = CollectHeld(
                         [sess EXCEPT ![Head(sig.queue)].phase =
                             IF ok /\ @ = "resolved" THEN "closed" ELSE @],
                         Tail(sig.queue))
            /\ UNCHANGED <<clients, inflight>>
    /\ UNCHANGED <<disk, disc, clientInfo>>

----------------------------------------------------------------------------
\* The steps the collaborator, the timers and the start of the server take,
\* when the writes of the metadata file have an outcome of W
Lifecycle(W) ==
    \/ Listen
    \/ \E s \in Slots : HandshakeResolve(s)
    \/ \E s \in Slots : HandshakeReject(s)
    \/ \E s \in Slots, e \in Events \ {"ready"} : Event(s, e, TRUE, TRUE)
    \/ \E s \in Slots, readOk \in BOOLEAN, writeOk \in W :
          Event(s, "ready", readOk, writeOk)
    \/ \E s \in Slots : TimerFire(s)

\* DELETE /session/:clientId, when requests name the identifiers of I
Deletes(I) ==
    \/ \E i \in I : DeleteReq(i)
    \/ \E s \in Slots, ok \in BOOLEAN : DeleteFinish(s, ok)

\* The session routes, when requests name the identifiers of I
Requests(I) ==
    \/ StartMissing
    \/ \E i \in I : StartReq(i)
    \/ \E i \in I : StatusReq(i)
    \/ Deletes(I)

NextOver(I, W) == Lifecycle(W) \/ Requests(I)

\* The forwarded operations on the identifiers of I
Forwarding(I) ==
    \/ \E i \in I : ForwardReq(i)
    \/ ForwardSettle

\* The interrupt, until the process has exited
Interrupt ==
    \/ Sigint
    \/ \E ok \in BOOLEAN : Teardown(ok)

\* One identifier in play: any content of SESSIONS_DIR/a, requests for "a"
Init == InitWith({d \in [Ids -> DiskKinds] : d["b"] = "none"})
Next == NextOver({"a"}, BOOLEAN) \/ Forwarding({"a"})
Spec == Init /\ [][Next]_vars

\* Two identifiers in play: "b" holds a session on disk, "a" a session or a
\* directory without one; the metadata file cannot be written
InitTwo == InitWith({d \in [Ids -> DiskKinds] :
                        d["b"] = "session" /\ d["a"] # "none"})
NextTwo == NextOver(Ids, {FALSE})
SpecTwo == InitTwo /\ [][NextTwo]_vars

\* Two identifiers rehydrated from disk, no request: the metadata file
InitMeta == InitWith({d \in [Ids -> DiskKinds] : \A i \in Ids : d[i] = "session"})
NextMeta == Lifecycle(BOOLEAN)
SpecMeta == InitMeta /\ [][NextMeta]_vars

\* Two identifiers rehydrated from disk, DELETE requests and the interrupt;
\* the metadata file cannot be written
NextInt == Lifecycle({FALSE}) \/ Deletes(Ids) \/ Interrupt
SpecInt == InitMeta /\ [][NextInt]_vars

----------------
(* Properties *)

InList(i, list) == \E k \in 1..Len(list) : list[k] = i

\* the Client objects of identifier i that are in their handshake or stored
Live(i) == {s \in Slots : /\ sess[s].clientId = i
                          /\ sess[s].phase = "handshake" \/ clients[i] = s}

\* this step constructs a Client for i
Constructed(i) ==
    \E s \in Slots : /\ sess'[s].phase = "handshake" /\ sess'[s].clientId = i
                     /\ ~(sess[s].phase = "handshake" /\ sess[s].clientId = i)

\* this step calls create(i): the POST handler or the discovery loop
CreateCalled(i) == StartReq(i) \/ calls'[i] > calls[i]

\* create(i) returned the stored Client: no Client is constructed for i, and
\* the entry of i and the Client it holds are as before
ReturnedExisting(i) ==
    /\ ~Constructed(i)
    /\ clients'[i] = clients[i]
    /\ sess'[clients[i]] = sess[clients[i]]

\* C1: for every identifier, at every observation point, at most one Session
\* exists (in its handshake or registered): concurrent create calls never
\* construct two Sessions or start two handshakes.
C1_OneSessionPerId == \A i \in Ids : Cardinality(Live(i)) <= 1

\* C2: from create(id) until the first lifecycle event, a status query for
\* id answers status initializing with a null pairing payload.
C2_InitializingObservable ==
    \A s \in Slots :
        (sess[s].phase = "handshake" /\ sess[s].status = "initializing")
        => /\ StatusResponse(sess[s].clientId).status = "initializing"
           /\ StatusResponse(sess[s].clientId).qr = "null"

C4_QrIffPairing ==
    \A s \in Slots :
        sess[s].phase # "unused"
        => (sess[s].qr # "null" <=> sess[s].status = "qr_ready")

\* C5: a Session that entered disconnected and stays so is absent from the
\* Registry once its grace timer has fired, whenever the disconnect happened.
C5_DisconnectedEvicted ==
    \A s \in Slots :
        (sess[s].phase # "unused" /\ sess[s].status = "disconnected"
            /\ sess[s].timers = 0)
        => clients[sess[s].clientId] # s

\* C6: the timer of a Session's disconnected transition evicts that Session
\* only: when another Session (or none) is registered under the identifier,
\* its firing leaves the Registry unchanged.
C6_TimerEvictsOwnSession ==
    [][\A s \in Slots :
          TimerFire(s) => (clients' = clients \/ clients[sess[s].clientId] = s)]_vars

\* C7: when destroy(id) on a live Session returns, whether logout/teardown
\* succeeded or threw, id is not in the Registry and has no directory on disk.
C7_DestroyUnconditional ==
    [][\A s \in Slots, ok \in BOOLEAN :
          DeleteFinish(s, ok)
          => /\ clients'[sess[s].clientId] = NoClient
             /\ disk'[sess[s].clientId] = "none"]_vars

\* C8: destroy(id) called twice in a row: the second call answers notFound
\* and neither call answers an error.
C8_DestroyTwice ==
    listening =>
    \A i \in Ids, ok1 \in BOOLEAN, ok2 \in BOOLEAN :
        LET first == Destroy(clients, disk, i, ok1)
            second == Destroy(first.clients, first.disk, i, ok2)
        IN  /\ first.res.code # 500
            /\ second.res.code = 404

\* C9: destroy(id) with no Session for id in the Registry deletes the
\* directory of id if there is one and reports the removal from disk only,
\* reports notFound (404) if there is none, and leaves the Registry as it is.
C9_DestroyNotLive ==
    listening =>
    \A i \in Ids, ok \in BOOLEAN :
        clients[i] = NoClient =>
        LET r == Destroy(clients, disk, i, ok)
        IN  /\ r.clients = clients
            /\ r.disk = [j \in Ids |-> IF j = i THEN "none" ELSE disk[j]]
            /\ r.res = IF disk[i] # "none"
                       THEN Response(200, "Session files removed from disk", "", "")
                       ELSE Response(404, "Session not found", "", "")

\* a directory is on disk for an identifier whose Client was never stored or
\* has been evicted
C9_Witness ==
    /\ DiscoveryDone
    /\ made["a"] = 1 /\ clients["a"] = NoClient /\ disk["a"] = "session"

----------------------------------------------------------------------------
\* a request handler starts on identifier i
Handled(i) ==
    StartMissing \/ StartReq(i) \/ StatusReq(i) \/ DeleteReq(i) \/ ForwardReq(i)

----------------------------------------------------------------------------
\* C12: a send or query is forwarded to the collaborator only if the Session
\* is registered and its status is ready when the handler checks; otherwise
\* the answer is 400 'Client not ready' and no collaborator call is made.
C12_ForwardOnlyWhenReady ==
    /\ [](\A i \in Ids :
            (clients[i] = NoClient \/ sess[clients[i]].status # "ready") =>
                ForwardResponse(i) = Response(400, "Client not ready", "", ""))
    /\ [][\A i \in Ids :
            ForwardReq(i) =>
                IF clients[i] # NoClient /\ sess[clients[i]].status = "ready"
                THEN inflight' = inflight + 1
                ELSE inflight' = inflight]_vars

\* a call was forwarded and is pending, and the Session has left ready since
C12_Witness ==
    /\ inflight > 0
    /\ clients["a"] # NoClient
    /\ sess[clients["a"]].status = "disconnected"

----------------------------------------------------------------------------
\* C13: when the handshake fails during create(id), the Session is left in
\* the Registry in status error, so that a status query made afterwards
\* reports error.
C13_FailedSessionRegistered ==
    [][\A s \in Slots :
          HandshakeReject(s) =>
              /\ clients'[sess[s].clientId] # NoClient
              /\ sess'[clients'[sess[s].clientId]].status = "error"]_vars

----------------------------------------------------------------------------
RestStates == {"error", "auth_failure", "disconnected"}

\* C14: error, authFailure and disconnected do not block re-creation: a
\* create(id) issued while the registered Session of id is in one of them
\* constructs a new Session and starts its handshake, both when the create
\* is a start request and when it is a direct call.
C14_RestStatesRecreate ==
    /\ [](\A i \in Ids :
            (clients[i] # NoClient /\ sess[clients[i]].status \in RestStates)
                => StartConstructs(i))
    /\ [][\A i \in Ids :
            ( /\ CreateCalled(i)
              /\ clients[i] # NoClient
              /\ sess[clients[i]].status \in RestStates ) => Constructed(i)]_vars

----------------------------------------------------------------------------
\* C15: on a ready transition, a failure to read or to write the metadata
\* file leaves the Session in status ready and in the Registry as it was,
\* changes no other Session and nothing a request reads but the file; a
\* failed write leaves the file as it was.
C15_MetadataFailureIsSilent ==
    [][\A s \in Slots, readOk \in BOOLEAN, writeOk \in BOOLEAN :
          (Event(s, "ready", readOk, writeOk) /\ ~(readOk /\ writeOk)) =>
              /\ sess'[s].status = "ready"
              /\ sess'[s].phase = sess[s].phase
              /\ clients' = clients
              /\ \A u \in Slots \ {s} : sess'[u] = sess[u]
              /\ disk' = disk /\ inflight' = inflight
              /\ ~writeOk => clientInfo' = clientInfo]_vars

\* a registered Session that is ready and has no record: its write failed
C15_Witness ==
    \E i \in Ids :
        /\ clients[i] # NoClient
        /\ sess[clients[i]].status = "ready"
        /\ i \notin clientInfo

----------------------------------------------------------------------------
\* C16 (I3): a record that a ready transition wrote to the metadata file is
\* in the file in every later state, also after the ready transitions of
\* other identifiers have read, modified and written the file.
C16_RecordsKept ==
    [][clientInfo \subseteq clientInfo']_vars

\* C16 as amended: a ready transition that reads the file and writes it
\* adds its own record and keeps every other; one whose write fails leaves
\* the file as it was; a record leaves the file only when a ready
\* transition fails to read the file and then writes it, which leaves that
\* transition's record alone in the file.
C16_RecordsKeptUnlessReadFails ==
    [][ /\ \A s \in Slots :
              Event(s, "ready", TRUE, TRUE) =>
                  clientInfo' = clientInfo \cup {sess[s].clientId}
        /\ \A s \in Slots, readOk \in BOOLEAN :
              Event(s, "ready", readOk, FALSE) => clientInfo' = clientInfo
        /\ ~(clientInfo \subseteq clientInfo') =>
              \E s \in Slots : /\ Event(s, "ready", FALSE, TRUE)
                               /\ clientInfo' = {sess[s].clientId} ]_vars

\* both identifiers are ready and the file holds the records of both: the
\* second write kept the first record
C16_Witness ==
    /\ clientInfo = Ids
    /\ \A i \in Ids : clients[i] # NoClient /\ sess[clients[i]].status = "ready"

----------------------------------------------------------------------------
\* the Clients stored in `clients`
Stored == {clients[i] : i \in {j \in Ids : clients[j] # NoClient}}

\* C17: only an explicit destroy deletes credential material: a step that
\* changes a credential directory is a step of the DELETE handler, so no
\* event, timer or interrupt step does; the interrupt takes every stored
\* Session, calls teardown on them one after the other whether the
\* teardown before succeeded or failed, and exits after the last.
C17_OnlyDestroyDeletes ==
    [][ /\ disk' # disk =>
              \/ \E i \in Ids : DeleteReq(i)
              \/ \E s \in Slots : DeleteFinish(s, TRUE)
        /\ (sig.state = "none" /\ sig'.state # "none") =>
              IF Stored = {} THEN sig'.state = "exited"
              ELSE /\ sig'.state = "shutting"
                   /\ {sig'.queue[k] : k \in 1..Len(sig'.queue)} = Stored
        /\ (sig.state = "shutting" /\ sig' # sig) =>
              IF Len(sig.queue) = 1 THEN sig'.state = "exited"
              ELSE sig' = [sig EXCEPT !.queue = Tail(@)]
        /\ ( /\ Teardown(TRUE) /\ Len(sig.queue) > 1
              /\ sess[Head(sig.queue)].phase = "resolved" ) =>
                  sess'[Head(sig.queue)].phase = "closed" ]_vars

\* the interrupt took both Sessions, the teardown of the first threw, the
\* loop is at the second, and both credential directories are as they were
C17_Witness ==
    /\ sig.state = "shutting"
    /\ clients["a"] # NoClient /\ clients["b"] # NoClient
    /\ sig.queue = <<clients["b"]>>
    /\ sess[clients["a"]].phase = "resolved"
    /\ \A i \in Ids : disk[i] = "session"

----------------------------------------------------------------------------
\* C18: the status query has three outcomes, decided by whether the
\* identifier is in the Registry and whether its directory exists: the
\* Session's status and qr; the degraded answer of status disconnected with
\* a message; 404. The query changes neither the Registry nor the disk.
C18_StatusQueryOutcomes ==
    /\ [](\A i \in Ids :
            LET res == StatusResponse(i)
            IN  /\ clients[i] # NoClient =>
                      /\ res.code = 200 /\ res.msg = ""
                      /\ res.status = sess[clients[i]].status
                      /\ res.qr = sess[clients[i]].qr
                /\ (clients[i] = NoClient /\ disk[i] # "none") =>
                      /\ res.code = 200 /\ res.msg # ""
                      /\ res.status = "disconnected" /\ res.qr = ""
                /\ (clients[i] = NoClient /\ disk[i] = "none") =>
                      res.code = 404 /\ res.status = "")
    /\ [][\A i \in Ids :
            StatusReq(i) => clients' = clients /\ sess' = sess /\ disk' = disk]_vars

\* the server takes requests, "a" has a directory and no Session: the
\* status query gives the degraded answer
C18_Witness ==
    /\ Serving
    /\ clients["a"] = NoClient /\ disk["a"] # "none"
    /\ StatusResponse("a").status = "disconnected"

----------------------------------------------------------------------------
\* slot s holds the same Client before and after the step
SameClient(s) ==
    /\ sess[s].phase # "unused" /\ sess'[s].phase # "unused"
    /\ sess'[s].clientId = sess[s].clientId

\* C19: a Session's status is one of the seven states and changes only
\* along the edges initializing -> pairing -> authenticated -> ready,
\* initializing -> error, pairing | authenticated -> authFailure, and
\* initializing | pairing | authenticated | ready -> disconnected.
C19_StatusAlongFsmEdges ==
    /\ [](\A s \in Slots :
            sess[s].phase # "unused" =>
                sess[s].status \in {"initializing", "qr_ready", "authenticated",
                                    "ready", "auth_failure", "disconnected",
                                    "error"})
    /\ [][\A s \in Slots :
            (SameClient(s) /\ sess'[s].status # sess[s].status) =>
                <<sess[s].status, sess'[s].status>> \in
                    EventEdges \cup {<<"initializing", "error">>}]_vars

\* C19 as amended: a Session's status is one of eight values, the seven
\* states and loading; the handlers do not test the current status: each of
\* the six events, in whatever status it arrives, sets the status that
\* belongs to the event; error is set only by the failure of the handshake,
\* in whatever status the Session then is; no step sets initializing again.
C19_StatusSetByEvent ==
    /\ [](\A s \in Slots :
            sess[s].phase # "unused" =>
                sess[s].status \in {"initializing", "qr_ready", "authenticated",
                                    "ready", "auth_failure", "disconnected",
                                    "error", "loading"})
    /\ [][ /\ \A s \in Slots, e \in Events \ {"ready"} :
                 Event(s, e, TRUE, TRUE) => sess'[s].status = StatusOf(e)
           /\ \A s \in Slots, readOk \in BOOLEAN, writeOk \in BOOLEAN :
                 Event(s, "ready", readOk, writeOk) => sess'[s].status = "ready"
           /\ \A s \in Slots :
                 (SameClient(s) /\ sess'[s].status # sess[s].status) =>
                     \/ /\ sess'[s].status = "error"
                        /\ sess[s].phase = "handshake"
                        /\ sess'[s].phase = "rejected"
                     \/ /\ sess'[s].status \in {StatusOf(e) : e \in Events}
                        /\ sess[s].phase \in {"handshake", "resolved"}
                        /\ sess'[s].phase = sess[s].phase ]_vars

\* a registered Session of status loading
C19_Witness ==
    \E s \in Slots :
        /\ clients[sess[s].clientId] = s
        /\ sess[s].status = "loading"

----------------------------------------------------------------------------
\* C20: a Session leaves the Registry only through a successful explicit
\* destroy of its identifier or through its own eviction timer firing while
\* its status is disconnected; a timer that fires when its Session is no
\* longer disconnected leaves the Registry unchanged.
C20_LeavesRegistryOnlyByDestroyOrOwnTimer ==
    [][ /\ \A i \in Ids :
              (clients[i] # NoClient /\ clients'[i] # clients[i]) =>
                  \/ \E s \in Slots :
                        DeleteFinish(s, TRUE) /\ sess[s].clientId = i
                  \/ /\ TimerFire(clients[i])
                     /\ sess[clients[i]].status = "disconnected"
        /\ \A s \in Slots :
              (TimerFire(s) /\ sess[s].status # "disconnected") =>
                  clients' = clients ]_vars
====
